---- MODULE Spec2Model ----
(***************************************************************************)
(* A model of the backtesting engine of src/app/backtesting.py: the       *)
(* replay loop Backtester.run, the simulated market BacktesterMarket and  *)
(* the strategy callback contract Indicator of src/app/indicators.py.     *)
(*                                                                         *)
(* The strategy is an arbitrary subclass of Indicator: inside on_candle   *)
(* it issues any sequence of open_position / close_position calls.  An    *)
(* exception raised by a market operation propagates out of on_candle,    *)
(* _on_candle and run.                                                     *)
(*                                                                         *)
(* PriceHistory of src/app/utils.py is modelled on its own (SpecHistory),  *)
(* and the two bundled strategies, OrderedSMAIndicator run by              *)
(* Backtester.run and MAIntersectionTrader run by the Backtester of        *)
(* src/app/trading.py, over block-shaped feeds (SpecStrategy); SpecReuse   *)
(* adds a second Backtester that runs the same indicator instance.         *)
(* BacktesterStatistics (SpecStatistics) and the request windows of        *)
(* TinkoffImporter.import_candles of src/app/tinkoff.py (SpecImporter)     *)
(* are modelled on their own.                                              *)
(*                                                                         *)
(* Python's None is modelled as 0 for times and prices (both are >= 1 in  *)
(* every feed) and as the string "None" for the position type and the     *)
(* strategy's market reference.                                            *)
(***************************************************************************)
EXTENDS Integers, Sequences, FiniteSets, TLC

\* ------------------------------------------------------------ bounds
MaxFeed == 3        \* longest candle feed
MaxOps  == 2        \* market calls a strategy issues inside one on_candle
MaxRuns == 2        \* calls of Backtester.run on the one Backtester

\* ------------------------------------------------------------ values
None  == 0
NoneT == "None"

PositionType == {"long", "short"}

Times  == 1 .. (MaxFeed + 1)
Prices == {1, 2}

\* schemas.Candle: only the fields the engine reads (time, open).
Candle == [time : Times, open : Prices]

NoCandle == [time |-> None, open |-> None]

\* Position(): every field None.
Position ==
  [type |-> NoneT, open_time |-> None, open_price |-> None,
   close_time |-> None, close_price |-> None]

\* The feeds a candle source produces: finite, strictly increasing in time.
Feeds ==
  UNION { { f \in [1 .. n -> Candle] :
              \A i \in 1 .. n - 1 : f[i].time < f[i + 1].time } : n \in 0 .. MaxFeed }

VARIABLES
  feed,              \* the candles the source produces (input, never changes)
  source,            \* candles the one-shot source has not handed out yet
  _candles,          \* Backtester._candles: [it: "source"|"tee", buf: buffered items]
  _candles_cache,    \* Backtester._candles_cache (None modelled as <<>>)
  _tested,           \* Backtester._tested
  prev_candle,       \* local of run
  next_candle,       \* local of run
  current_time,      \* BacktesterMarket.current_time
  current_price,     \* BacktesterMarket.current_price
  current_position,  \* BacktesterMarket.current_position
  _positions,        \* BacktesterMarket._positions, the trade ledger
  indicator_market,  \* Indicator.market: "None" or "market" (the Backtester's)
  pc,                \* where control is
  ret,               \* where control goes when the on_candle body returns
  err,               \* the exception the last failing call raised
  call,              \* the operation the last step called ("none" if none)
  ops,               \* market calls issued in the current on_candle
  closes,            \* successful closes in the current on_candle
  multiClose,        \* some on_candle closed more than once
  opened,            \* successful open_position calls so far
  closed,            \* successful close_position calls so far
  slot_shared,       \* the slot holds the same object as the last ledger entry
  close_candles,     \* per ledger entry, the candle on_candle was given when it closed
  runNo,             \* calls of run so far
  returned,          \* calls of run that returned the statistics
  starts,            \* calls of indicator.start so far
  bodies,            \* on_candle bodies entered so far
  taken,             \* candles this run took from self._candles
  delivered,         \* candles this run delivered to the on_candle body
  _size,             \* PriceHistory._size
  data,              \* PriceHistory.data: the stored samples [time, value], oldest first
  added,             \* every sample handed to PriceHistory.add, as [time, price]
  hcall,             \* the PriceHistory method the last step called ("none" if none)
  sma_size,          \* the argument of the last calc_sma call
  sma_result,        \* what the last calc_sma call returned or raised
  strategy,          \* the strategy object under run: "generic", "sma" or "ma"
  ind_position,      \* OrderedSMAIndicator.current_position
  ind_time,          \* OrderedSMAIndicator.current_time
  sma_diffs,         \* MAIntersectionTrader.sma_diffs
  sma_signs,         \* MAIntersectionTrader.sma_signs
  trader_market,     \* Trader.market: "None" or "market"
  current_dt,        \* trading.BacktesterMarket.current_dt
  trade_history,     \* trading.BacktesterMarket.trade_history: [order, time]
  tpos,              \* candles the trading.Backtester.run loop has taken
  last_ops,          \* the market calls the last on_candle body issued
  _raw_positions,    \* BacktesterStatistics._raw_positions: the ledger it was given
  comission_fee,     \* BacktesterStatistics.comission_fee, in tenths
  profit_ratio,      \* the profit_ratio column (floats), <<>> until computed
  equity,            \* the equity column (Decimals), <<>> until computed
  stat_pc,           \* where the positions property is
  interval,          \* import_candles argument: "batched" or "whole"
  start_dt,          \* import_candles argument
  end_dt,            \* import_candles argument
  batch_size,        \* candle_batch_size[interval]
  cursor_start,      \* local of import_candles
  cursor_end,        \* local of import_candles
  requests,          \* the (start_dt, end_dt) windows passed to get_candles, in order
  imp_pc             \* where import_candles is

market_vars == <<current_time, current_price, current_position, _positions>>
feed_vars   == <<feed, source, _candles, _candles_cache>>
local_vars  == <<prev_candle, next_candle>>
ghost_vars  == <<multiClose, opened, closed, slot_shared, close_candles, runNo,
                 returned, starts, bodies, taken, delivered>>

hist_vars   == <<_size, data, added, hcall, sma_size, sma_result>>
strat_vars  == <<strategy, ind_position, ind_time, sma_diffs, sma_signs, trader_market,
                 current_dt, trade_history, tpos, last_ops>>

stat_vars   == <<_raw_positions, comission_fee, profit_ratio, equity, stat_pc>>
imp_vars    == <<interval, start_dt, end_dt, batch_size, cursor_start, cursor_end,
                 requests, imp_pc>>

vars == <<feed, source, _candles, _candles_cache, _tested, prev_candle, next_candle,
          current_time, current_price, current_position, _positions,
          indicator_market, pc, ret, err, call, ops, closes, multiClose, opened,
          closed, slot_shared, close_candles, runNo, returned, starts, bodies, taken,
          delivered, hist_vars, strat_vars, stat_vars, imp_vars>>

\* ------------------------------------------------------------ helpers

Last(s) == s[Len(s)]

\* The items an iterator will still yield.
IterItems(c, src) == IF c.it = "source" THEN src ELSE c.buf

\* itertools.tee(it): two iterators that both yield the items of it.
tee_drop(items) == <<<<>>, items>>
tee(items) == <<items, items>>

\* lines 89-90: the candle whose time and open become the market's clock and price.
fill_candle_prev(prev, next) == prev
fill_candle_none(prev, next) == NoCandle
fill_candle(prev, next) == next

\* line 92: the candle run hands to indicator._on_candle.
dispatched_candle_next(prev, next) == next
dispatched_candle(prev, next) == prev

\* Indicator.start: self.market = market.
start_unbound(market) == NoneT
start(market) == market

\* Indicator._on_candle's guard: `if not self.market`.
not_started_never(m) == FALSE
not_started(m) == m = NoneT

\* BacktesterMarket.open_position's guard.
already_opened_never(p) == FALSE
already_opened(p) == p.type # NoneT

\* BacktesterMarket.close_position's guard.
not_opened_never(p) == FALSE
not_opened(p) == p.type = NoneT

\* The fields open_position stamps.
stamp_open(p, position_type, time, price) ==
  [p EXCEPT !.type = position_type, !.open_time = time, !.open_price = price]

\* The fields close_position stamps.
stamp_close_price_only(p, time, price) ==
  [p EXCEPT !.close_price = price]
stamp_close(p, time, price) ==
  [p EXCEPT !.close_time = time, !.close_price = price]

\* line 51: the ledger after the closed position is appended.
ledger_append_front(ledger, p) == <<p>> \o ledger
ledger_append(ledger, p) == Append(ledger, p)

\* line 52: the slot after a close is a new Position object, not the one appended.
new_position_in_place(p) == [obj |-> [p EXCEPT !.type = NoneT], shared |-> TRUE]
new_position(p) == [obj |-> Position, shared |-> FALSE]

\* An exception leaves the on_candle body: out of run, or back to the direct caller.
Raise(e) ==
  /\ err' = e
  /\ pc' = IF ret = "loop" THEN "raised" ELSE ret

\* ------------------------------------------------------------ initial state

\* PriceHistory.__init__: an empty window of the given capacity.
HistoryInit(size) ==
  /\ _size = size
  /\ data = <<>>
  /\ added = <<>>
  /\ hcall = "none"
  /\ sma_size = 0
  /\ sma_result = [exc |-> "none", msg |-> "", time |-> None, value |-> None]

\* OrderedSMAIndicator.__init__, MAIntersectionTrader.__init__ and the
\* trading.BacktesterMarket they trade on.
StrategyInit(s) ==
  /\ strategy = s
  /\ ind_position = NoneT
  /\ ind_time = None
  /\ sma_diffs = <<>>
  /\ sma_signs = <<>>
  /\ trader_market = NoneT
  /\ current_dt = None
  /\ trade_history = <<>>
  /\ tpos = 0
  /\ last_ops = <<>>

\* No BacktesterStatistics has been built.
StatisticsIdle ==
  /\ _raw_positions = <<>>
  /\ comission_fee = 0
  /\ profit_ratio = <<>>
  /\ equity = <<>>
  /\ stat_pc = "none"

\* import_candles has not been called.
ImporterIdle ==
  /\ interval = "none"
  /\ start_dt = 0
  /\ end_dt = 0
  /\ batch_size = 0
  /\ cursor_start = 0
  /\ cursor_end = 0
  /\ requests = <<>>
  /\ imp_pc = "none"

\* BacktesterMarket.__init__, Backtester.__init__ and Indicator.__init__.
BacktesterInit ==
  /\ source = feed
  /\ _candles = [it |-> "source", buf |-> <<>>]
  /\ _candles_cache = <<>>
  /\ _tested = FALSE
  /\ prev_candle = NoCandle
  /\ next_candle = NoCandle
  /\ current_time = None
  /\ current_price = None
  /\ current_position = Position
  /\ _positions = <<>>
  /\ indicator_market = NoneT
  /\ pc = "idle"
  /\ ret = "idle"
  /\ err = "none"
  /\ call = "none"
  /\ ops = 0
  /\ closes = 0
  /\ multiClose = FALSE
  /\ opened = 0
  /\ closed = 0
  /\ slot_shared = FALSE
  /\ close_candles = <<>>
  /\ runNo = 0
  /\ returned = 0
  /\ starts = 0
  /\ bodies = 0
  /\ taken = <<>>
  /\ delivered = <<>>

Init ==
  /\ feed \in Feeds
  /\ BacktesterInit
  /\ HistoryInit(0)
  /\ StrategyInit("generic")
  /\ StatisticsIdle
  /\ ImporterIdle

\* ------------------------------------------------------------ Backtester.run

\* run is called; line 81: indicator.start(self.market).
Run ==
  /\ pc \in {"idle", "complete", "raised"}
  /\ runNo < MaxRuns
  /\ runNo' = runNo + 1
  /\ indicator_market' = start("market")
  /\ starts' = starts + 1
  /\ pc' = "tee"
  /\ err' = "none"
  /\ call' = "start"
  /\ taken' = <<>>
  /\ delivered' = <<>>
  /\ UNCHANGED <<hist_vars, strat_vars, stat_vars, imp_vars>>
  /\ UNCHANGED <<feed_vars, _tested, local_vars, market_vars, ret, ops, closes,
                 multiClose, opened, closed, slot_shared, close_candles, returned, bodies>>

\* lines 83-84: tee the feed and snapshot one copy into a list.
TeeSnapshot ==
  /\ pc = "tee"
  /\ LET pair == tee(IterItems(_candles, source)) IN
       /\ _candles' = [it |-> "tee", buf |-> pair[1]]
       /\ _candles_cache' = pair[2]
  /\ source' = IF _candles.it = "source" THEN <<>> ELSE source
  /\ pc' = "first"
  /\ call' = "none"
  /\ UNCHANGED <<hist_vars, strat_vars, stat_vars, imp_vars>>
  /\ UNCHANGED <<feed, _tested, local_vars, market_vars, indicator_market, ret, err,
                 ops, closes, ghost_vars>>

\* line 86: prev_candle = next(self._candles); StopIteration on an empty feed.
First ==
  /\ pc = "first"
  /\ call' = "none"
  /\ IF _candles.buf = <<>>
       THEN /\ err' = "StopIteration"
            /\ pc' = "raised"
            /\ UNCHANGED <<_candles, prev_candle, taken>>
       ELSE /\ prev_candle' = Head(_candles.buf)
            /\ _candles' = [_candles EXCEPT !.buf = Tail(@)]
            /\ taken' = Append(taken, Head(_candles.buf))
            /\ pc' = "loop"
            /\ err' = err
  /\ UNCHANGED <<hist_vars, strat_vars, stat_vars, imp_vars>>
  /\ UNCHANGED <<feed, source, _candles_cache, _tested, next_candle, market_vars,
                 indicator_market, ret, ops, closes, multiClose, opened, closed, slot_shared, close_candles,
                 runNo, returned, starts, bodies, delivered>>

\* lines 88-90: the for loop takes the next candle and sets the clock and price.
LoopNext ==
  /\ pc = "loop"
  /\ _candles.buf # <<>>
  /\ next_candle' = Head(_candles.buf)
  /\ _candles' = [_candles EXCEPT !.buf = Tail(@)]
  /\ taken' = Append(taken, Head(_candles.buf))
  /\ current_time' = fill_candle(prev_candle, Head(_candles.buf)).time
  /\ current_price' = fill_candle(prev_candle, Head(_candles.buf)).open
  /\ pc' = "dispatch"
  /\ call' = "none"
  /\ UNCHANGED <<hist_vars, strat_vars, stat_vars, imp_vars>>
  /\ UNCHANGED <<feed, source, _candles_cache, _tested, prev_candle, current_position,
                 _positions, indicator_market, ret, err, ops, closes, multiClose,
                 opened, closed, slot_shared, close_candles, runNo, returned, starts, bodies, delivered>>

\* line 92 and Indicator._on_candle (indicators.py 27-31): the guard, then the body.
Dispatch ==
  /\ pc = "dispatch"
  /\ call' = "_on_candle"
  /\ IF not_started(indicator_market)
       THEN /\ err' = "NotStarted"
            /\ pc' = "raised"
            /\ UNCHANGED <<ret, ops, closes, bodies, delivered>>
       ELSE /\ pc' = "on_candle"
            /\ ret' = "loop"
            /\ ops' = 0
            /\ closes' = 0
            /\ bodies' = bodies + 1
            /\ delivered' = Append(delivered, dispatched_candle(prev_candle, next_candle))
            /\ err' = err
  /\ UNCHANGED <<hist_vars, strat_vars, stat_vars, imp_vars>>
  /\ UNCHANGED <<feed_vars, _tested, local_vars, market_vars, indicator_market,
                 multiClose, opened, closed, slot_shared, close_candles, runNo, returned, starts, taken>>

\* The on_candle body returns; line 94: prev_candle = next_candle.
OnCandleReturn ==
  /\ pc = "on_candle"
  /\ pc' = ret
  /\ prev_candle' = IF ret = "loop" THEN next_candle ELSE prev_candle
  /\ call' = "none"
  /\ UNCHANGED <<hist_vars, strat_vars, stat_vars, imp_vars>>
  /\ UNCHANGED <<feed_vars, _tested, next_candle, market_vars, indicator_market, ret,
                 err, ops, closes, ghost_vars>>

\* line 96: the feed is exhausted, run returns the statistics.
Return ==
  /\ pc = "loop"
  /\ _candles.buf = <<>>
  /\ pc' = "complete"
  /\ returned' = returned + 1
  /\ call' = "none"
  /\ UNCHANGED <<hist_vars, strat_vars, stat_vars, imp_vars>>
  /\ UNCHANGED <<feed_vars, _tested, local_vars, market_vars, indicator_market, ret,
                 err, ops, closes, multiClose, opened, closed, slot_shared, close_candles, runNo, starts,
                 bodies, taken, delivered>>

\* ------------------------------------------------------------ BacktesterMarket

\* open_position, called by the strategy inside on_candle.
open_position(position_type) ==
  /\ pc = "on_candle"
  /\ ops < MaxOps
  /\ ops' = ops + 1
  /\ call' = "open_position"
  /\ IF already_opened(current_position)
       THEN /\ Raise("Position already opened!")
            /\ UNCHANGED <<current_position, _positions, opened>>
       ELSE /\ current_position' =
                 stamp_open(current_position, position_type, current_time, current_price)
            /\ _positions' =
                 IF slot_shared /\ _positions # <<>>
                   THEN [_positions EXCEPT ![Len(_positions)] = current_position']
                   ELSE _positions
            /\ opened' = opened + 1
            /\ UNCHANGED <<pc, err>>
  /\ UNCHANGED <<hist_vars, strat_vars, stat_vars, imp_vars>>
  /\ UNCHANGED <<feed_vars, _tested, local_vars, current_time, current_price,
                 indicator_market, ret, closes, multiClose, closed, slot_shared,
                 close_candles, runNo, returned, starts, bodies, taken, delivered>>

\* close_position, called by the strategy inside on_candle.
close_position ==
  /\ pc = "on_candle"
  /\ ops < MaxOps
  /\ ops' = ops + 1
  /\ call' = "close_position"
  /\ IF not_opened(current_position)
       THEN /\ Raise("Position is not opened!")
            /\ UNCHANGED <<current_position, _positions, closes, multiClose, closed,
                           slot_shared, close_candles>>
       ELSE /\ LET closing == stamp_close(current_position, current_time, current_price)
                    slot == new_position(closing)
                IN  /\ _positions' =
                         ledger_append(_positions, IF slot.shared THEN slot.obj ELSE closing)
                    /\ current_position' = slot.obj
                    /\ slot_shared' = slot.shared
            /\ closed' = closed + 1
            /\ closes' = closes + 1
            /\ multiClose' = (multiClose \/ closes >= 1)
            /\ close_candles' = Append(close_candles, Last(delivered))
            /\ UNCHANGED <<pc, err>>
  /\ UNCHANGED <<hist_vars, strat_vars, stat_vars, imp_vars>>
  /\ UNCHANGED <<feed_vars, _tested, local_vars, current_time, current_price,
                 indicator_market, ret, opened, runNo, returned, starts, bodies, taken,
                 delivered>>

\* ------------------------------------------------------------ direct delivery

\* A caller hands a candle to indicator._on_candle outside of run, before start.
DirectOnCandle ==
  /\ pc = "idle"
  /\ call' = "_on_candle"
  /\ IF not_started(indicator_market)
       THEN /\ err' = "NotStarted"
            /\ UNCHANGED <<pc, ret, ops, closes, bodies>>
       ELSE /\ pc' = "on_candle"
            /\ ret' = "idle"
            /\ ops' = 0
            /\ closes' = 0
            /\ bodies' = bodies + 1
            /\ err' = err
  /\ UNCHANGED <<hist_vars, strat_vars, stat_vars, imp_vars>>
  /\ UNCHANGED <<feed_vars, _tested, local_vars, market_vars, indicator_market,
                 multiClose, opened, closed, slot_shared, close_candles, runNo, returned, starts, taken,
                 delivered>>

\* ------------------------------------------------------------ specification

Next ==
  \/ Run
  \/ TeeSnapshot
  \/ First
  \/ LoopNext
  \/ Dispatch
  \/ OnCandleReturn
  \/ Return
  \/ \E position_type \in PositionType : open_position(position_type)
  \/ close_position
  \/ DirectOnCandle

Spec == Init /\ [][Next]_vars

\* ------------------------------------------------------------ PriceHistory

MaxSize == 3        \* largest capacity of a PriceHistory used on its own
MaxAdds == 4        \* samples added to it

\* Decimal prices are counted in thousandths: 10000 is the price 10.
HistoryPrices == {15, 10000, 10005, 20000, 30000, 40000}

\* utils.py line 17: int(price * 100), the price in hundredths, truncated.
to_int_rounded(price) == (price * 100 + 500) \div 1000
to_int(price) == (price * 100) \div 1000

RECURSIVE SumValues(_)
SumValues(d) == IF d = <<>> THEN 0 ELSE d[1].value + SumValues(Tail(d))

\* utils.py line 20: self.data.iloc[1:].
evict_newest(d) == SubSeq(d, 1, Len(d) - 1)
evict(d) == Tail(d)

\* PriceHistory.add: the window after one more sample.
add(d, size, price, time) ==
  LET appended == Append(d, [time |-> time, value |-> to_int(price)])
  IN  IF Len(appended) > size THEN evict(appended) ELSE appended

\* utils.py line 23: the guard of calc_sma.
sma_size_too_large_never(k, size) == FALSE
sma_size_too_large(k, size) == k > size

\* rolling(sma_size) at the last row: the sma_size newest samples.
rolling_window_oldest(d, k) == SubSeq(d, 1, k)
rolling_window(d, k) == SubSeq(d, Len(d) - k + 1, Len(d))

\* PriceHistory.calc_sma: what the call returns or raises.  The tuple is built left
\* to right: data.index[-1] raises IndexError on an empty window; with fewer than
\* sma_size samples the rolling mean is NaN and int(NaN) raises ValueError; the mean
\* of integers is truncated by int().
calc_sma(d, size, k) ==
  IF sma_size_too_large(k, size)
    THEN [exc |-> "ValueError", msg |-> "SMA size shouldn't be greater than size",
          time |-> None, value |-> None]
  ELSE IF d = <<>>
    THEN [exc |-> "IndexError", msg |-> "index out of bounds",
          time |-> None, value |-> None]
  ELSE IF Len(d) < k
    THEN [exc |-> "ValueError", msg |-> "cannot convert float NaN to integer",
          time |-> None, value |-> None]
  ELSE [exc |-> "none", msg |-> "",
        time |-> Last(d).time, value |-> SumValues(rolling_window(d, k)) \div k]

\* A caller adds one sample; sample times increase.
Add ==
  /\ Len(added) < MaxAdds
  /\ \E price \in HistoryPrices :
       LET time == Len(added) + 1 IN
         /\ data' = add(data, _size, price, time)
         /\ added' = Append(added, [time |-> time, price |-> price])
  /\ hcall' = "add"
  /\ UNCHANGED <<_size, sma_size, sma_result>>
  /\ UNCHANGED <<feed_vars, _tested, local_vars, market_vars, indicator_market, pc, ret,
                 err, call, ops, closes, ghost_vars, strat_vars>>
  /\ UNCHANGED <<stat_vars, imp_vars>>

\* A caller asks for a moving average.
CalcSma ==
  /\ \E k \in 1 .. MaxSize + 1 :
       /\ sma_size' = k
       /\ sma_result' = calc_sma(data, _size, k)
  /\ hcall' = "calc_sma"
  /\ UNCHANGED <<_size, data, added>>
  /\ UNCHANGED <<feed_vars, _tested, local_vars, market_vars, indicator_market, pc, ret,
                 err, call, ops, closes, ghost_vars, strat_vars>>
  /\ UNCHANGED <<stat_vars, imp_vars>>

InitHistory ==
  /\ feed = <<>>
  /\ BacktesterInit
  /\ \E size \in 1 .. MaxSize : HistoryInit(size)
  /\ StrategyInit("none")
  /\ StatisticsIdle
  /\ ImporterIdle

NextHistory ==
  \/ Add
  \/ CalcSma

SpecHistory == InitHistory /\ [][NextHistory]_vars

\* ------------------------------------------------------------ OrderedSMAIndicator

Extra == 5          \* candles a strategy feed has beyond the ones that fill the history

history_size == 20  \* PriceHistory(size=20); `if len(self.history) < 20`

\* indicators.py line 68: the four window sizes.
sma_sizes == <<2, 8, 14, 20>>

\* Candle prices of the strategy feeds, in thousandths (0.1, 0.2, 0.3).
StrategyPrices == {100, 200, 300}

\* Candles with a close: the feed is flat over candles 1-6, 7-12, 13-18 and 19-20
\* and free afterwards; q lists the levels.
SmaLevel(i, q) ==
  IF i <= 6 THEN q[1] ELSE IF i <= 12 THEN q[2] ELSE IF i <= 18 THEN q[3]
  ELSE IF i <= 20 THEN q[4] ELSE q[i - 16]

\* The levels of the four flat stretches: rising, falling, flat, rising late.
SmaShapes ==
  { <<100, 100, 200, 300>>, <<300, 300, 200, 100>>, <<200, 200, 200, 200>>,
    <<100, 200, 200, 300>> }

SmaFeeds ==
  { [i \in 1 .. history_size + Extra |->
       [time |-> i, open |-> SmaLevel(i, q), close |-> SmaLevel(i, q)]] :
    q \in { shape \o x : shape \in SmaShapes, x \in [1 .. Extra -> StrategyPrices] } }

\* calc_sma returns the tuple (time, value); Python compares tuples lexicographically.
tuple_le(x, y) == x.time < y.time \/ (x.time = y.time /\ x.value <= y.value)
tuple_lt(x, y) == x.time < y.time \/ (x.time = y.time /\ x.value < y.value)

tuple_gt(x, y) == tuple_lt(y, x)

\* line 68: current_sma = tuple(self.history.calc_sma(size) for size in (2, 8, 14, 20)).
current_sma(d, size) == [i \in 1 .. Len(sma_sizes) |-> calc_sma(d, size, sma_sizes[i])]

\* _try_open_position: the position it decides on, None if neither chain holds.
_try_open_position(s) ==
  IF tuple_gt(s[1], s[2]) /\ tuple_gt(s[2], s[3]) /\ tuple_gt(s[3], s[4]) THEN "long"
  ELSE IF tuple_lt(s[1], s[2]) /\ tuple_lt(s[2], s[3]) /\ tuple_lt(s[3], s[4]) THEN "short"
  ELSE NoneT

OpenOp(position_type) == [op |-> "open_position", type |-> position_type]
CloseOp == [op |-> "close_position", type |-> NoneT]

\* lines 70-80 with the three _try_ methods: the market calls on_candle issues, in order.
on_candle_ops(position, s) ==
  IF position = NoneT
    THEN IF _try_open_position(s) # NoneT THEN <<OpenOp(_try_open_position(s))>> ELSE <<>>
  ELSE IF position = "long"
    THEN IF tuple_lt(s[1], s[2]) THEN <<CloseOp>> ELSE <<>>
  ELSE IF position = "short"
    THEN IF tuple_gt(s[1], s[2]) THEN <<CloseOp>> ELSE <<>>
  ELSE <<[op |-> "raise", type |-> NoneT]>>

\* The market as one value, for a body that runs in one step.
MarketNow ==
  [current_position |-> current_position, positions |-> _positions,
   slot_shared |-> slot_shared, err |-> "none", opened |-> opened, closed |-> closed]

\* BacktesterMarket.open_position on the market value m.
market_open(m, position_type) ==
  IF already_opened(m.current_position)
    THEN [m EXCEPT !.err = "Position already opened!"]
    ELSE LET p == stamp_open(m.current_position, position_type, current_time, current_price)
         IN  [m EXCEPT !.current_position = p,
                       !.positions = IF m.slot_shared /\ @ # <<>>
                                       THEN [@ EXCEPT ![Len(@)] = p] ELSE @,
                       !.opened = @ + 1]

\* BacktesterMarket.close_position on the market value m.
market_close(m) ==
  IF not_opened(m.current_position)
    THEN [m EXCEPT !.err = "Position is not opened!"]
    ELSE LET closing == stamp_close(m.current_position, current_time, current_price)
             slot == new_position(closing)
         IN  [m EXCEPT !.positions =
                          ledger_append(@, IF slot.shared THEN slot.obj ELSE closing),
                       !.current_position = slot.obj,
                       !.slot_shared = slot.shared,
                       !.closed = @ + 1]

\* The calls of o made in order; an exception ends the body.
RECURSIVE MarketApply(_, _)
MarketApply(m, o) ==
  IF o = <<>> \/ m.err # "none" THEN m
  ELSE IF Head(o).op = "open_position" THEN MarketApply(market_open(m, Head(o).type), Tail(o))
  ELSE IF Head(o).op = "close_position" THEN MarketApply(market_close(m), Tail(o))
  ELSE [m EXCEPT !.err = "Wrong position type!"]

\* self.current_position after the body: set before open_position is called
\* (line 93), cleared after close_position returned (lines 103, 112).
position_after_uncleared(position, o, m) ==
  IF o = <<>> THEN position
  ELSE IF Last(o).op = "open_position" THEN Last(o).type
  ELSE position
position_after(position, o, m) ==
  IF o = <<>> THEN position
  ELSE IF Last(o).op = "open_position" THEN Last(o).type
  ELSE IF Last(o).op = "close_position" /\ m.err = "none" THEN NoneT
  ELSE position

\* OrderedSMAIndicator.on_candle on the delivered candle, then line 94 of run.
SMA_OnCandle ==
  /\ pc = "on_candle"
  /\ strategy = "sma"
  /\ LET candle == Last(delivered)
         d == add(data, _size, candle.close, candle.time)
         full == ~(Len(d) < history_size)
         o == IF full THEN on_candle_ops(ind_position, current_sma(d, _size)) ELSE <<>>
         m == MarketApply(MarketNow, o)
     IN  /\ data' = d
         /\ added' = Append(added, [time |-> candle.time, price |-> candle.close])
         /\ ind_time' = candle.time
         /\ hcall' = IF full THEN "calc_sma" ELSE "add"
         /\ sma_size' = IF full THEN Last(sma_sizes) ELSE sma_size
         /\ sma_result' = IF full THEN Last(current_sma(d, _size)) ELSE sma_result
         /\ last_ops' = o
         /\ ind_position' = position_after(ind_position, o, m)
         /\ current_position' = m.current_position
         /\ _positions' = m.positions
         /\ slot_shared' = m.slot_shared
         /\ opened' = m.opened
         /\ closed' = m.closed
         /\ ops' = Len(o)
         /\ closes' = m.closed - closed
         /\ multiClose' = (multiClose \/ m.closed - closed > 1)
         /\ close_candles' = IF m.closed > closed THEN Append(close_candles, candle)
                             ELSE close_candles
         /\ call' = IF o = <<>> THEN "none" ELSE Last(o).op
         /\ IF m.err = "none"
              THEN /\ pc' = ret
                   /\ prev_candle' = next_candle
                   /\ err' = err
              ELSE /\ Raise(m.err)
                   /\ prev_candle' = prev_candle
  /\ UNCHANGED <<feed_vars, _tested, next_candle, current_time, current_price,
                 indicator_market, ret, runNo, returned, starts, bodies, taken, delivered,
                 _size, strategy, sma_diffs, sma_signs, trader_market, current_dt,
                 trade_history, tpos>>
  /\ UNCHANGED <<stat_vars, imp_vars>>

\* ------------------------------------------------------------ MAIntersectionTrader

MaExtra == 5        \* candles a trader feed has beyond the ones that fill the history

sma_short_size == 2
sma_long_size == 10

\* Candles with a close: the feed is flat over candles 1-8 and 9-10 and free afterwards.
MaLevel(i, q) == IF i <= 8 THEN q[1] ELSE IF i <= 10 THEN q[2] ELSE q[i - 8]

MaFeeds ==
  { [i \in 1 .. sma_long_size + MaExtra |->
       [time |-> i, open |-> MaLevel(i, q), close |-> MaLevel(i, q)]] :
    q \in [1 .. 2 + MaExtra -> StrategyPrices] }

\* trading.py lines 121-126: the sign of an SMA difference.
sign(sma_diff) == IF sma_diff > 0 THEN 1 ELSE IF sma_diff < 0 THEN -1 ELSE 0

\* trading.py line 120: a sign is recorded only when this holds of len(self.sma_diffs).
sign_recorded_from_first(n) == n >= 1
sign_recorded(n) == n >= 2

Order(o) == [op |-> o, type |-> NoneT]

\* generate_signal: the market calls it issues for the last two recorded signs.
generate_signal_fallthrough(signs) ==
  LET prev == signs[Len(signs) - 1]
      last == signs[Len(signs)]
      sign_diff == last - prev
  IN  (IF sign_diff = 2 THEN <<Order("buy")>>
       ELSE IF sign_diff = -2 THEN <<Order("sell")>> ELSE <<>>)
      \o (IF last = 1 THEN <<Order("buy")>>
          ELSE IF last = -1 THEN <<Order("sell")>> ELSE <<>>)
generate_signal(signs) ==
  LET prev == signs[Len(signs) - 1]
      last == signs[Len(signs)]
      sign_diff == last - prev
  IN  IF sign_diff = 2 THEN <<Order("buy")>>
      ELSE IF sign_diff = -2 THEN <<Order("sell")>>
      ELSE IF prev = 0
        THEN IF last = 1 THEN <<Order("buy")>>
             ELSE IF last = -1 THEN <<Order("sell")>>
             ELSE <<>>
      ELSE <<>>

\* trading.BacktesterMarket.buy / sell: one row per call, indexed by current_dt.
RECURSIVE trade(_, _, _)
trade(history, o, time) ==
  IF o = <<>> THEN history
  ELSE trade(Append(history, [order |-> IF Head(o).op = "buy" THEN "BUY" ELSE "SELL",
                              time |-> time]),
             Tail(o), time)

\* trading.Backtester.run is called: trader.start(self.market).
MA_Run ==
  /\ strategy = "ma"
  /\ pc = "idle"
  /\ trader_market' = start("market")
  /\ pc' = "ma_loop"
  /\ call' = "start"
  /\ UNCHANGED <<feed_vars, _tested, local_vars, market_vars, indicator_market, ret, err,
                 ops, closes, ghost_vars, hist_vars, strategy, ind_position, ind_time,
                 sma_diffs, sma_signs, current_dt, trade_history, tpos, last_ops>>
  /\ UNCHANGED <<stat_vars, imp_vars>>

\* One turn of the loop of trading.Backtester.run: the clock, Trader._on_candle and
\* MAIntersectionTrader.on_candle on the candle.
MA_OnCandle ==
  /\ strategy = "ma"
  /\ pc = "ma_loop"
  /\ tpos < Len(feed)
  /\ tpos' = tpos + 1
  /\ current_dt' = feed[tpos + 1].time
  /\ call' = "_on_candle"
  /\ IF not_started(trader_market)
       THEN /\ err' = "NotStarted"
            /\ pc' = "raised"
            /\ UNCHANGED <<hist_vars, sma_diffs, sma_signs, trade_history, last_ops>>
       ELSE LET candle == feed[tpos + 1]
                d == add(data, _size, candle.close, candle.time)
                full == Len(d) = sma_long_size
                sma_short == calc_sma(d, _size, sma_short_size)
                sma_long == calc_sma(d, _size, sma_long_size)
                sma_diff == sma_short.value - sma_long.value
                diffs == IF full
                           THEN Append(sma_diffs, [time |-> sma_short.time, value |-> sma_diff])
                           ELSE sma_diffs
                signs == IF full /\ sign_recorded(Len(diffs))
                           THEN Append(sma_signs, sign(sma_diff)) ELSE sma_signs
                o == IF full /\ Len(signs) >= 2 THEN generate_signal(signs) ELSE <<>>
            IN  /\ data' = d
                /\ added' = Append(added, [time |-> candle.time, price |-> candle.close])
                /\ hcall' = IF full THEN "calc_sma" ELSE "add"
                /\ sma_size' = IF full THEN sma_long_size ELSE sma_size
                /\ sma_result' = IF full THEN sma_long ELSE sma_result
                /\ sma_diffs' = diffs
                /\ sma_signs' = signs
                /\ last_ops' = o
                /\ trade_history' = trade(trade_history, o, current_dt')
                /\ UNCHANGED <<_size, pc, err>>
  /\ UNCHANGED <<feed_vars, _tested, local_vars, market_vars, indicator_market, ret,
                 ops, closes, ghost_vars, strategy, ind_position, ind_time, trader_market>>
  /\ UNCHANGED <<stat_vars, imp_vars>>

\* The feed is exhausted: run returns the trade history.
MA_Return ==
  /\ strategy = "ma"
  /\ pc = "ma_loop"
  /\ tpos = Len(feed)
  /\ pc' = "ma_complete"
  /\ call' = "none"
  /\ UNCHANGED <<feed_vars, _tested, local_vars, market_vars, indicator_market, ret, err,
                 ops, closes, ghost_vars, hist_vars, strat_vars>>
  /\ UNCHANGED <<stat_vars, imp_vars>>

\* ------------------------------------------------------------ the bundled strategies

InitStrategy ==
  \/ /\ feed \in SmaFeeds
     /\ BacktesterInit
     /\ HistoryInit(history_size)
     /\ StrategyInit("sma")
     /\ StatisticsIdle
     /\ ImporterIdle
  \/ /\ feed \in MaFeeds
     /\ BacktesterInit
     /\ HistoryInit(sma_long_size)
     /\ StrategyInit("ma")
     /\ StatisticsIdle
     /\ ImporterIdle

NextStrategy ==
  \/ strategy = "sma" /\ Run
  \/ strategy = "sma" /\ TeeSnapshot
  \/ strategy = "sma" /\ First
  \/ strategy = "sma" /\ LoopNext
  \/ strategy = "sma" /\ Dispatch
  \/ SMA_OnCandle
  \/ strategy = "sma" /\ Return
  \/ MA_Run
  \/ MA_OnCandle
  \/ MA_Return

SpecStrategy == InitStrategy /\ [][NextStrategy]_vars

\* ------------------------------------------------------------ reusing the indicator

\* The feeds of the second Backtester: two candles, times starting over.
ReuseFeeds ==
  { [i \in 1 .. 2 |-> [time |-> i, open |-> q[i], close |-> q[i]]] :
    q \in [1 .. 2 -> StrategyPrices] }

\* After a run returned, a new Backtester (with its own empty BacktesterMarket) is
\* built over another feed, to run the same OrderedSMAIndicator instance once more.
\* The indicator keeps its fields; its market reference is rebound by start in Run.
Reuse ==
  /\ strategy = "sma"
  /\ pc = "complete"
  /\ starts = runNo
  /\ feed' \in ReuseFeeds
  /\ source' = feed'
  /\ _candles' = [it |-> "source", buf |-> <<>>]
  /\ _candles_cache' = <<>>
  /\ _tested' = FALSE
  /\ current_time' = None
  /\ current_price' = None
  /\ current_position' = Position
  /\ _positions' = <<>>
  /\ slot_shared' = FALSE
  /\ opened' = 0
  /\ closed' = 0
  /\ close_candles' = <<>>
  /\ runNo' = 0
  /\ pc' = "idle"
  /\ call' = "none"
  /\ UNCHANGED <<local_vars, indicator_market, ret, err, ops, closes, multiClose, returned,
                 starts, bodies, taken, delivered, hist_vars, strat_vars, stat_vars,
                 imp_vars>>

NextReuse ==
  \/ NextStrategy
  \/ Reuse

SpecReuse == InitStrategy /\ [][NextReuse]_vars

\* ------------------------------------------------------------ BacktesterStatistics

MaxTrades == 3      \* longest ledger handed to the statistics

\* Prices of the closed trades and commission rates in tenths (0 and 0.1).
OpenPrices == {10}
ClosePrices == {9, 11, 12}
Fees == {0, 1}

\* A float keeps this many steps per unit here (the program's floats keep 53 bits).
FloatDen == 16

\* The ledgers run hands over: closed positions, entry i open at 2i - 1, closed at 2i.
Ledgers ==
  UNION { { [i \in 1 .. n |->
               [type |-> t[i].type, open_time |-> 2 * i - 1, open_price |-> t[i].open_price,
                close_time |-> 2 * i, close_price |-> t[i].close_price]] :
            t \in [1 .. n -> [type : PositionType, open_price : OpenPrices,
                              close_price : ClosePrices]] } :
          n \in 1 .. MaxTrades }

\* float(q) of the Decimal q.num / q.den: the nearest float, as a count of steps.
to_float(q) == (2 * q.num * FloatDen + q.den) \div (2 * q.den)

\* Decimal(val) of a float: its exact value.
Decimal(val) == [num |-> val, den |-> FloatDen]

\* _calc_profit_ratio with the commission c / 10: lines 125-134.
_calc_profit_ratio(row, c) ==
  IF row.type = "long"
    THEN to_float([num |-> row.close_price * 10 - row.close_price * c,
                   den |-> row.open_price * 10 + row.open_price * c])
    ELSE to_float([num |-> row.open_price * 10 + row.open_price * c,
                   den |-> row.close_price * 10 - row.close_price * c])

\* The loop of _calc_equity: the list after the values of ratios are consumed.
RECURSIVE equity_loop(_, _)
equity_loop(eq, ratios) ==
  IF ratios = <<>> THEN eq
  ELSE LET val == Decimal(Head(ratios))
           current_eq == [num |-> Last(eq).num * val.num, den |-> Last(eq).den * val.den]
       IN  equity_loop(Append(eq, current_eq), Tail(ratios))

\* _calc_equity: lines 137-143.
_calc_equity(ratios) == Tail(equity_loop(<<[num |-> 1, den |-> 1]>>, ratios))

\* positions, line 151: the profit_ratio column of a copy of the ledger.
ApplyProfitRatio ==
  /\ stat_pc = "new"
  /\ profit_ratio' =
       [i \in 1 .. Len(_raw_positions) |-> _calc_profit_ratio(_raw_positions[i], comission_fee)]
  /\ stat_pc' = "ratios"
  /\ UNCHANGED <<_raw_positions, comission_fee, equity>>
  /\ UNCHANGED <<feed_vars, _tested, local_vars, market_vars, indicator_market, pc, ret,
                 err, call, ops, closes, ghost_vars, hist_vars, strat_vars, imp_vars>>

\* positions, lines 152-155: the equity column; the result is cached and returned.
CalcEquity ==
  /\ stat_pc = "ratios"
  /\ equity' = _calc_equity(profit_ratio)
  /\ stat_pc' = "done"
  /\ UNCHANGED <<_raw_positions, comission_fee, profit_ratio>>
  /\ UNCHANGED <<feed_vars, _tested, local_vars, market_vars, indicator_market, pc, ret,
                 err, call, ops, closes, ghost_vars, hist_vars, strat_vars, imp_vars>>

\* BacktesterStatistics.__init__ on a ledger and a commission.
InitStatistics ==
  /\ feed = <<>>
  /\ BacktesterInit
  /\ HistoryInit(0)
  /\ StrategyInit("none")
  /\ ImporterIdle
  /\ _raw_positions \in Ledgers
  /\ comission_fee \in Fees
  /\ profit_ratio = <<>>
  /\ equity = <<>>
  /\ stat_pc = "new"

NextStatistics ==
  \/ ApplyProfitRatio
  \/ CalcEquity

SpecStatistics == InitStatistics /\ [][NextStatistics]_vars

\* ------------------------------------------------------------ TinkoffImporter

MaxDt == 6          \* latest end_dt, in time units from the earliest start_dt
MaxBatch == 3       \* largest batch size, in the same units

\* tinkoff.py line 295: min(cursor_start + batch_size, end_dt).
first_cursor_end(cs, size, end) == IF cs + size < end THEN cs + size ELSE end

\* import_candles is called with an interval that is not batched (D7, D30): one request.
ImportWhole ==
  /\ imp_pc = "called"
  /\ interval = "whole"
  /\ requests' = Append(requests, [start_dt |-> start_dt, end_dt |-> end_dt])
  /\ imp_pc' = "done"
  /\ UNCHANGED <<interval, start_dt, end_dt, batch_size, cursor_start, cursor_end>>
  /\ UNCHANGED <<feed_vars, _tested, local_vars, market_vars, indicator_market, pc, ret,
                 err, call, ops, closes, ghost_vars, hist_vars, strat_vars, stat_vars>>

\* lines 292-297: the first window.
ImportFirstWindow ==
  /\ imp_pc = "called"
  /\ interval = "batched"
  /\ cursor_start' = start_dt
  /\ cursor_end' = first_cursor_end(start_dt, batch_size, end_dt)
  /\ imp_pc' = "loop"
  /\ UNCHANGED <<interval, start_dt, end_dt, batch_size, requests>>
  /\ UNCHANGED <<feed_vars, _tested, local_vars, market_vars, indicator_market, pc, ret,
                 err, call, ops, closes, ghost_vars, hist_vars, strat_vars, stat_vars>>

\* lines 298-305: one turn of `while cursor_end <= end_dt`.
ImportRequest ==
  /\ imp_pc = "loop"
  /\ cursor_end <= end_dt
  /\ requests' = Append(requests, [start_dt |-> cursor_start, end_dt |-> cursor_end])
  /\ cursor_start' = cursor_end
  /\ cursor_end' = cursor_end + batch_size
  /\ UNCHANGED <<interval, start_dt, end_dt, batch_size, imp_pc>>
  /\ UNCHANGED <<feed_vars, _tested, local_vars, market_vars, indicator_market, pc, ret,
                 err, call, ops, closes, ghost_vars, hist_vars, strat_vars, stat_vars>>

\* line 298: the loop condition fails; the candles collected are stored.
ImportLoopExit ==
  /\ imp_pc = "loop"
  /\ ~(cursor_end <= end_dt)
  /\ imp_pc' = "done"
  /\ UNCHANGED <<interval, start_dt, end_dt, batch_size, cursor_start, cursor_end, requests>>
  /\ UNCHANGED <<feed_vars, _tested, local_vars, market_vars, indicator_market, pc, ret,
                 err, call, ops, closes, ghost_vars, hist_vars, strat_vars, stat_vars>>

\* import_candles is called with start_dt <= end_dt.
InitImporter ==
  /\ feed = <<>>
  /\ BacktesterInit
  /\ HistoryInit(0)
  /\ StrategyInit("none")
  /\ StatisticsIdle
  /\ interval \in {"batched", "whole"}
  /\ start_dt \in 0 .. 1
  /\ end_dt \in start_dt .. MaxDt
  /\ batch_size \in 1 .. MaxBatch
  /\ cursor_start = 0
  /\ cursor_end = 0
  /\ requests = <<>>
  /\ imp_pc = "called"

NextImporter ==
  \/ ImportWhole
  \/ ImportFirstWindow
  \/ ImportRequest
  \/ ImportLoopExit

SpecImporter == InitImporter /\ [][NextImporter]_vars

\* ------------------------------------------------------------ claims

\* The place of a candle in the feed (candle times are distinct).
IndexOf(c) == CHOOSE j \in 1 .. Len(feed) : feed[j] = c

\* The candle that follows c in the feed.
Following(c) == feed[IndexOf(c) + 1]

OpenNow == IF current_position.type = NoneT THEN 0 ELSE 1

\* C1: open_position called while a position is open fails with the error and leaves
\* the open position (type, open_time, open_price), the ledger and the clock
\* unchanged; so in every reachable state at most one position is open: the
\* successful opens not yet closed are exactly the one in the slot, if any.
C1_OpenWhileOpenFails ==
  /\ [](opened - Len(_positions) = OpenNow)
  /\ [][(call' = "open_position" /\ current_position.type # NoneT)
         => /\ err' = "Position already opened!"
            /\ pc' # "on_candle"
            /\ current_position' = current_position
            /\ _positions' = _positions
            /\ current_time' = current_time
            /\ current_price' = current_price]_vars

C1_Witness ==
  /\ call = "open_position"
  /\ err = "Position already opened!"
  /\ current_position.type # NoneT
  /\ current_position.open_time # None

\* C2: close_position called while no position is open fails with the error and
\* leaves the ledger and the empty slot unchanged; with a position open it stamps
\* close time and price with the current simulated time and price, appends exactly
\* that position at the end of the ledger and empties the slot.
C2_ClosePosition ==
  [][call' = "close_position"
       => IF current_position.type = NoneT
            THEN /\ err' = "Position is not opened!"
                 /\ pc' # "on_candle"
                 /\ _positions' = _positions
                 /\ current_position' = Position
            ELSE /\ err' = err
                 /\ Len(_positions') = Len(_positions) + 1
                 /\ SubSeq(_positions', 1, Len(_positions)) = _positions
                 /\ Last(_positions') =
                      [type |-> current_position.type,
                       open_time |-> current_position.open_time,
                       open_price |-> current_position.open_price,
                       close_time |-> current_time,
                       close_price |-> current_price]
                 /\ current_position' = Position]_vars

C2_Witness ==
  /\ call = "close_position"
  /\ err = "Position is not opened!"
  /\ current_position = Position
  /\ Len(_positions) >= 1

\* C3: next-open fill: whenever the strategy opens or closes a position while run has
\* given it candle i of the feed, the price stamped on the position is the opening
\* price of candle i+1.
C3_NextOpenFill ==
  [][(pc = "on_candle" /\ ret = "loop")
       => /\ (call' = "open_position" /\ current_position'.type # current_position.type)
               => current_position'.open_price = Following(Last(delivered)).open
          /\ (call' = "close_position" /\ Len(_positions') > Len(_positions))
               => Last(_positions').close_price = Following(Last(delivered)).open]_vars

C3_Witness ==
  /\ Len(_positions) >= 1
  /\ Len(feed) >= 3
  /\ feed[2].open # feed[3].open
  /\ _positions[1].open_price = feed[2].open
  /\ _positions[1].close_price = feed[3].open

\* The ledger's close times are strictly increasing in ledger order.
CloseTimesIncrease ==
  \A i \in 1 .. Len(_positions) - 1 :
     _positions[i].close_time < _positions[i + 1].close_time

IsPrefix(s, t) == Len(s) <= Len(t) /\ SubSeq(t, 1, Len(s)) = s

\* C5 as stated: run invokes on_candle exactly once for every candle of the feed,
\* the first and the last included, in feed order.
C5_EveryCandleDelivered ==
  pc = "complete" => delivered = _candles_cache

\* C5 amended: run invokes on_candle exactly once for every candle of the feed except
\* the last, in feed order, none skipped or delivered twice: what has been delivered
\* is at every moment a prefix of the feed, and when run returns it is the whole
\* feed without its last candle.
C5_AllButLastDelivered ==
  /\ IsPrefix(delivered, _candles_cache)
  /\ pc = "complete"
       => /\ Len(_candles_cache) >= 1
          /\ delivered = SubSeq(_candles_cache, 1, Len(_candles_cache) - 1)

C5_Witness ==
  /\ pc = "complete"
  /\ Len(_candles_cache) = 3
  /\ delivered = <<feed[1], feed[2]>>

\* C6: start is invoked exactly once per run and strictly before the first
\* on_candle, and the strategy is bound to the Backtester's market at every dispatch
\* of the run (the not-started guard never fires inside run).
C6_StartOncePerRun ==
  /\ starts = runNo
  /\ delivered # <<>> => starts >= 1
  /\ pc \in {"dispatch", "on_candle"} => indicator_market = "market"
  /\ ~(pc = "raised" /\ err = "NotStarted")

C6_Witness ==
  /\ pc = "on_candle"
  /\ ret = "loop"
  /\ Len(delivered) = 2
  /\ starts = 1
  /\ indicator_market = "market"

\* C7: a candle given to _on_candle before start fails with the error before the
\* on_candle body runs: no body is entered and neither the strategy's binding nor the
\* market (clock, price, slot, ledger) changes.
C7_NotStartedFails ==
  [][(call' = "_on_candle" /\ indicator_market = NoneT)
       => /\ err' = "NotStarted"
          /\ pc' # "on_candle"
          /\ bodies' = bodies
          /\ delivered' = delivered
          /\ indicator_market' = indicator_market
          /\ current_time' = current_time
          /\ current_price' = current_price
          /\ current_position' = current_position
          /\ _positions' = _positions]_vars

C7_Witness ==
  /\ pc = "idle"
  /\ call = "_on_candle"
  /\ err = "NotStarted"
  /\ bodies = 0
  /\ indicator_market = NoneT

\* C8 as stated: run called again after a run that returned fails with the NotComplete
\* error: the strategy is not started again.
C8_SecondRunRejected ==
  returned >= 1
    => /\ call # "start"
       /\ pc = "raised" => err = "NotComplete"

\* C9 as stated: on every finite feed, the empty one included, a run whose strategy
\* commits no usage error does not raise.
C9_RunDoesNotRaise ==
  (runNo = 1 /\ pc = "raised")
    => err \in {"Position already opened!", "Position is not opened!"}

\* C10: run pulls each element of the one-shot source exactly once (the snapshot
\* drains it and holds the whole feed), and the replay sees the same candles in the
\* same order as the snapshot.
C10_FeedConsumedOnce ==
  pc \in {"first", "loop", "dispatch", "on_candle", "complete", "raised"}
    => /\ source = <<>>
       /\ runNo = 1 => _candles_cache = feed
       /\ taken \o _candles.buf = _candles_cache

C10_Witness ==
  /\ pc = "complete"
  /\ runNo = 1
  /\ Len(feed) = 3
  /\ taken = feed
  /\ _candles_cache = feed

\* C11: the ledger is append-only and its entries are immutable: across every step
\* the ledger before is a prefix of the ledger after, it grows by at most one entry,
\* and the slot never holds the object of a ledger entry.
C11_LedgerAppendOnly ==
  /\ [](~slot_shared)
  /\ [][/\ IsPrefix(_positions, _positions')
        /\ Len(_positions') <= Len(_positions) + 1]_vars

C11_Witness ==
  /\ Len(_positions) = 1
  /\ _positions[1].type # NoneT
  /\ _positions[1].close_time # None
  /\ current_position.type # NoneT
  /\ current_position.open_time > _positions[1].close_time
  /\ call = "open_position"
  /\ err = "none"

\* C12: successful opens and closes strictly alternate, starting with an open: the
\* closes never outnumber the opens, the opens lead by at most one, and the ledger
\* has one entry per successful close.
C12_OpenCloseAlternate ==
  /\ closed <= opened
  /\ opened <= closed + 1
  /\ Len(_positions) = closed

C12_Witness ==
  /\ opened = 2
  /\ closed = 2
  /\ ~multiClose

\* C13: the simulated clock and price are written only by the replay loop:
\* open_position and close_position leave them unchanged, every change of either
\* happens in the loop step that takes the next candle, and that step strictly
\* increases current_time.
C13_ClockOwnedByLoop ==
  [][/\ call' \in {"open_position", "close_position"}
          => (current_time' = current_time /\ current_price' = current_price)
     /\ (current_time' # current_time \/ current_price' # current_price)
          => (pc = "loop" /\ pc' = "dispatch")
     /\ (pc = "loop" /\ pc' = "dispatch") => current_time' > current_time]_vars

C13_Witness ==
  /\ pc = "dispatch"
  /\ Len(delivered) = 1
  /\ current_position.type # NoneT
  /\ current_position.open_time = feed[2].time
  /\ current_time = feed[3].time

\* ------------------------------------------------------------ claims on PriceHistory

Min(a, b) == IF a < b THEN a ELSE b

\* The sample PriceHistory stores for an added [time, price].
Stored(a) == [time |-> a.time, value |-> (a.price * 100) \div 1000]

\* The n newest of the samples added so far, as stored, oldest first.
NewestStored(n) ==
  [i \in 1 .. n |-> Stored(added[Len(added) - n + i])]

RECURSIVE SumStored(_)
SumStored(n) == IF n = 0 THEN 0 ELSE Stored(added[Len(added) - n + 1]).value + SumStored(n - 1)

\* C14: a PriceHistory of capacity N never stores more than N samples, and the window
\* always holds the most recent min(count, N) samples in insertion order (each add
\* beyond N removes exactly the oldest).
C14_WindowIsNewest ==
  /\ Len(data) <= _size
  /\ data = NewestStored(Min(Len(added), _size))

C14_Witness ==
  /\ _size = 2
  /\ Len(added) = 4
  /\ Len(data) = 2
  /\ data[1].time = 3
  /\ data[2].time = 4

\* calc_sma was just called with k <= N while at least k samples are held.
SmaDefined ==
  /\ hcall = "calc_sma"
  /\ sma_size <= _size
  /\ Len(data) >= sma_size

\* C15 as stated: calc_sma(k) returns the time of the newest sample and the arithmetic
\* mean of the k most recently added prices (prices are counted in thousandths).
C15_SmaIsMeanOfPrices ==
  SmaDefined
    => /\ sma_result.exc = "none"
       /\ sma_result.time = added[Len(added)].time
       /\ sma_result.value * sma_size * 1000 =
            SumValues([i \in 1 .. sma_size |->
                        [value |-> added[Len(added) - sma_size + i].price]])

\* C15 amended: calc_sma(k) returns the time of the newest sample and the mean of the
\* k most recently added samples as stored, that is of the prices in hundredths
\* int(price * 100), truncated to an integer.
C15_SmaIsTruncatedMeanOfHundredths ==
  SmaDefined
    => /\ sma_result.exc = "none"
       /\ sma_result.time = added[Len(added)].time
       /\ sma_result.value = SumStored(sma_size) \div sma_size

C15_Witness ==
  /\ SmaDefined
  /\ _size = 3
  /\ sma_size = 3
  /\ Len(added) = 4
  /\ added[1].price = 10000
  /\ added[2].price = 20000
  /\ added[3].price = 30000
  /\ added[4].price = 40000
  /\ sma_result.value = 3000

\* C16: calc_sma(k) with k greater than the capacity fails with the configuration
\* error in every state of the window and leaves the window unchanged.
C16_TooLargeFails ==
  [][(hcall' = "calc_sma" /\ sma_size' > _size)
       => /\ sma_result'.exc = "ValueError"
          /\ sma_result'.msg = "SMA size shouldn't be greater than size"
          /\ data' = data
          /\ _size' = _size]_vars

C16_Witness ==
  /\ hcall = "calc_sma"
  /\ sma_size > _size
  /\ Len(data) = _size
  /\ sma_result.exc = "ValueError"

\* C17 as stated: calc_sma(k) with k <= N while fewer than k samples are held signals
\* the InsufficientData condition, distinguishable from the configuration error
\* (a ValueError), and returns no number.
C17_InsufficientDataSignalled ==
  (hcall = "calc_sma" /\ sma_size <= _size /\ Len(data) < sma_size)
    => /\ sma_result.exc = "InsufficientData"
       /\ sma_result.exc # "ValueError"
       /\ sma_result.value = None

\* ------------------------------------------------------------ claims on the strategies

\* The sum of the k newest samples of a, as PriceHistory stores them.
RECURSIVE SumNewest(_, _)
SumNewest(a, k) ==
  IF k = 0 THEN 0 ELSE Stored(a[Len(a) - k + 1]).value + SumNewest(a, k - 1)

\* The value calc_sma(k) gives on the samples a.
SmaOf(a, k) == SumNewest(a, k) \div k

\* The market and the ledger are as they were.
MarketUntouched ==
  /\ current_position' = current_position
  /\ _positions' = _positions

\* C18: once 20 samples are held, OrderedSMAIndicator with no position opens Long iff
\* sma2 > sma8 > sma14 > sma20 strictly, opens Short iff sma2 < sma8 < sma14 < sma20
\* strictly and otherwise does nothing; while Long it closes iff sma2 < sma8; while
\* Short it closes iff sma2 > sma8; ties never trigger an open or a close.  (smaK is
\* the value calc_sma(K) returns.)  Before 20 samples are held it does nothing.
C18_DecisionRule ==
  [][(strategy = "sma" /\ pc = "on_candle")
       => IF Len(added') < 20
            THEN last_ops' = <<>> /\ MarketUntouched
            ELSE LET sma2 == SmaOf(added', 2)
                     sma8 == SmaOf(added', 8)
                     sma14 == SmaOf(added', 14)
                     sma20 == SmaOf(added', 20)
                     long == sma2 > sma8 /\ sma8 > sma14 /\ sma14 > sma20
                     short == sma2 < sma8 /\ sma8 < sma14 /\ sma14 < sma20
                 IN  /\ (current_position.type = NoneT /\ long)
                          => /\ last_ops' = <<OpenOp("long")>>
                             /\ current_position'.type = "long"
                             /\ _positions' = _positions
                     /\ (current_position.type = NoneT /\ short)
                          => /\ last_ops' = <<OpenOp("short")>>
                             /\ current_position'.type = "short"
                             /\ _positions' = _positions
                     /\ (current_position.type = NoneT /\ ~long /\ ~short)
                          => last_ops' = <<>> /\ MarketUntouched
                     /\ (current_position.type = "long" /\ sma2 < sma8)
                          => /\ last_ops' = <<CloseOp>>
                             /\ current_position'.type = NoneT
                             /\ Len(_positions') = Len(_positions) + 1
                     /\ (current_position.type = "long" /\ ~(sma2 < sma8))
                          => last_ops' = <<>> /\ MarketUntouched
                     /\ (current_position.type = "short" /\ sma2 > sma8)
                          => /\ last_ops' = <<CloseOp>>
                             /\ current_position'.type = NoneT
                             /\ Len(_positions') = Len(_positions) + 1
                     /\ (current_position.type = "short" /\ ~(sma2 > sma8))
                          => last_ops' = <<>> /\ MarketUntouched]_vars

C18_Witness ==
  /\ strategy = "sma"
  /\ Len(added) = 21
  /\ last_ops = <<CloseOp>>
  /\ Len(_positions) = 1
  /\ _positions[1].type = "long"
  /\ _positions[1].open_time = 21
  /\ _positions[1].close_time = 22

\* C19: each on_candle invocation of a bundled strategy issues at most one market
\* operation: OrderedSMAIndicator at most one of open_position / close_position,
\* MAIntersectionTrader at most one of buy / sell.
C19_AtMostOneOperation ==
  /\ [](Len(last_ops) <= 1)
  /\ [][(opened' - opened) + (closed' - closed)
          + (Len(trade_history') - Len(trade_history)) <= 1]_vars

C19_Witness ==
  /\ strategy = "ma"
  /\ Len(last_ops) = 1
  /\ Len(trade_history) = 2
  /\ trade_history[1].time = 12
  /\ trade_history[2].time = 13

\* The signal the crossing rule gives for two consecutive observations of the sign.
Crossing(prev, last) ==
  IF prev = -1 /\ last = 1 THEN <<Order("buy")>>
  ELSE IF prev = 1 /\ last = -1 THEN <<Order("sell")>>
  ELSE IF prev = 0 /\ last = 1 THEN <<Order("buy")>>
  ELSE IF prev = 0 /\ last = -1 THEN <<Order("sell")>>
  ELSE <<>>

\* C20 as stated: for every pair of consecutive observations of sign(SMA2 - SMA10),
\* starting with the first two observations available once 10 samples are held, the
\* on_candle that made the later observation issues the signal of the crossing rule.
C20_CrossingFromFirstPair ==
  (strategy = "ma" /\ Len(sma_diffs) >= 2)
    => last_ops = Crossing(IF sma_diffs[Len(sma_diffs) - 1].value > 0 THEN 1
                           ELSE IF sma_diffs[Len(sma_diffs) - 1].value < 0 THEN -1 ELSE 0,
                           IF sma_diffs[Len(sma_diffs)].value > 0 THEN 1
                           ELSE IF sma_diffs[Len(sma_diffs)].value < 0 THEN -1 ELSE 0)

\* A position usage error of the market.
UsageError == err \in {"Position already opened!", "Position is not opened!"}

\* C23: within a single Backtester.run with OrderedSMAIndicator the strategy's own
\* recorded position equals the type of the market's open position (None when the
\* slot is empty) after every on_candle, and the strategy never triggers the market's
\* open-while-open or close-while-none errors.
C23_StrategyAgreesWithMarket ==
  strategy = "sma"
    => /\ ind_position = current_position.type
       /\ ~UsageError
       /\ err # "Wrong position type!"

C23_Witness ==
  /\ strategy = "sma"
  /\ pc = "loop"
  /\ err = "none"
  /\ ind_position = "long"
  /\ current_position.type = "long"
  /\ Len(_positions) = 1
  /\ _positions[1].type = "long"

\* C24 as stated: after a run that ended with a position still open, starting the same
\* OrderedSMAIndicator on a fresh Backtester and replaying a feed never raises a
\* position usage error.
C24_ReuseRaisesNoUsageError ==
  (strategy = "sma" /\ runNo < starts) => ~UsageError

\* C25: every ledger entry produced by a Backtester.run with OrderedSMAIndicator has
\* type, open_time, open_price, close_time and close_price set with open_time strictly
\* before close_time; entry i + 1 opens strictly after entry i closed; a position still
\* open when the feed is exhausted is not in the ledger handed to the statistics.
C25_LedgerEntriesClosedAndDisjoint ==
  strategy = "sma"
    => /\ \A i \in 1 .. Len(_positions) :
            /\ _positions[i].type \in PositionType
            /\ _positions[i].open_time # None
            /\ _positions[i].open_price # None
            /\ _positions[i].close_time # None
            /\ _positions[i].close_price # None
            /\ _positions[i].open_time < _positions[i].close_time
       /\ \A i \in 1 .. Len(_positions) - 1 :
            _positions[i + 1].open_time > _positions[i].close_time
       /\ (pc = "complete" /\ current_position.type # NoneT)
            => /\ Len(_positions) = opened - 1
               /\ \A i \in 1 .. Len(_positions) :
                    _positions[i].open_time # current_position.open_time

C25_Witness ==
  /\ strategy = "sma"
  /\ pc = "complete"
  /\ Len(_positions) = 2
  /\ _positions[1].close_time = 22
  /\ _positions[2].open_time = 24
  /\ _positions[2].close_time = 25

\* C26 as stated: the orders MAIntersectionTrader records in trade_history strictly
\* alternate between buy and sell: never two consecutive buys or two consecutive sells.
C26_OrdersAlternate ==
  strategy = "ma"
    => \A i \in 1 .. Len(trade_history) - 1 :
         trade_history[i].order # trade_history[i + 1].order

\* ------------------------------------------------------------ claims on the statistics

\* The profit ratio of a trade without commission, as a float: close / open for a
\* Long, open / close for a Short.
NoFeeRatio(row) ==
  IF row.type = "long"
    THEN (2 * row.close_price * 16 + row.open_price) \div (2 * row.open_price)
    ELSE (2 * row.open_price * 16 + row.close_price) \div (2 * row.close_price)

\* C21 as stated: for every closed trade, Long or Short, and every commission rate
\* 0 < c < 1 the profit ratio the statistics compute is strictly smaller than the
\* profit ratio of the same trade with c = 0.
C21_CommissionLowersRatio ==
  (stat_pc \in {"ratios", "done"} /\ comission_fee > 0)
    => \A i \in 1 .. Len(_raw_positions) : profit_ratio[i] < NoFeeRatio(_raw_positions[i])

\* The exact profit ratio of a trade with the commission c / 10, as a fraction.
ExactRatio(row, c) ==
  IF row.type = "long"
    THEN [num |-> row.close_price * (10 - c), den |-> row.open_price * (10 + c)]
    ELSE [num |-> row.open_price * (10 + c), den |-> row.close_price * (10 - c)]

\* C22 as stated: the equity series has one entry per closed trade, in ledger order,
\* and entry i equals entry i - 1 (1 for the first) times the profit ratio of trade
\* i, exactly: ratios 1.1, 0.9, 1.2 give exactly 1.1, 0.99, 1.188.
C22_EquityIsExactRunningProduct ==
  stat_pc = "done"
    => /\ Len(equity) = Len(_raw_positions)
       /\ \A i \in 1 .. Len(equity) :
            LET prev == IF i = 1 THEN [num |-> 1, den |-> 1] ELSE equity[i - 1]
                r == ExactRatio(_raw_positions[i], comission_fee)
            IN  equity[i].num * prev.den * r.den = prev.num * r.num * equity[i].den

\* ------------------------------------------------------------ claims on the importer

\* C27 as stated: for a batched interval and start_dt <= end_dt, the windows
\* import_candles has requested when it is done are contiguous, non-overlapping, stay
\* within [start_dt, end_dt] and together cover the whole range up to end_dt, also when
\* end_dt - start_dt is not a multiple of the batch size.
C27_WindowsCoverRange ==
  (interval = "batched" /\ imp_pc = "done")
    => /\ requests # <<>>
       /\ requests[1].start_dt = start_dt
       /\ \A i \in 1 .. Len(requests) :
            /\ requests[i].start_dt <= requests[i].end_dt
            /\ start_dt <= requests[i].start_dt
            /\ requests[i].end_dt <= end_dt
       /\ \A i \in 1 .. Len(requests) - 1 : requests[i + 1].start_dt = requests[i].end_dt
       /\ requests[Len(requests)].end_dt = end_dt

====
